---- MODULE Spec2Model ----
(***************************************************************************)
(* Transaction lifecycle coordinator of the lending front-end:             *)
(*   - TransactionManager (the record store, utils/transaction-manager),   *)
(*   - useWagmiTransactionSync (the wallet-state reconciler),              *)
(*   - useCentralizedTransactionToasts (the notification deduplicator).    *)
(* The wallet-call tuple is an external input: the reconciler is fed any   *)
(* tuple, because useDepositMethod selects it from two wallet hooks and    *)
(* neither hook resets its state when the selected token changes.          *)
(***************************************************************************)
EXTENDS Integers, Sequences, FiniteSets, TLC

VARIABLES
    byTokenType,        \* TransactionManager.byTokenType: key -> Transaction
    order,              \* insertion order of byTokenType (a JS Map iterates in it)
    transactions,       \* TransactionManager.transactions: hash -> Transaction
    version,            \* TransactionManager.version
    listeners,          \* TransactionManager.listeners other than the toast hook's
    shownStatusByHash,  \* useCentralizedTransactionToasts: hash -> statuses shown
    tokenSymbol,        \* the token the reconciler is rendered with
    wagmi,              \* the wallet tuple the reconciler currently reads
    prevState,          \* useWagmiTransactionSync: prevState.current
    emitted,            \* history: toasts emitted during the last step, in order
    calls,              \* history: listener invocations during the last step
    ops,                \* history: manager operations run during the last step
    toastCount,         \* history: toasts per hash and kind, saturating at 2
    adopted,            \* history: keys whose record took its hash over from another key's record
    scenario,           \* history: progress through the USDC deposit scenario
    userTokens,         \* useUserTokensContext().tokens, as symbols in list order
    data,               \* useATokenBalances: data of useReadContracts, by index
    depositState,       \* DepositProvider: the reducer state
    lastOptimisticPosition, \* useATokenBalances: lastOptimisticPosition.current
    positions,          \* useATokenBalances (use-atoken-balances.ts): positions of the last render
    positionsSorted,    \* useATokenBalances (the sorting variant): positions of the last render
    depositHistory,     \* history: what the balance reader showed during the deposit
    dmRefs,             \* useDepositMethod (toast-owning version): its four refs
    hashToTokenRegistry,       \* useDepositMethod: module-level hash -> token symbol
    toastRefs,          \* useTransactionToast: the refs of the mounted instance
    globalSuccessHashRegistry, \* useTransactionToast: module-level set of hashes
    passed,             \* history: the arguments of the last useTransactionToast call
    firstOwner,         \* history: hash -> the token first recorded for it
    formAmount,         \* useDepositFlow / useWithdrawFlow: amount, as characters
    formBalance,        \* the balance string the form is given, as characters
    formDecimals,       \* token.decimals of the form's token
    formValid,          \* isValidAmount of the last render
    syncProps,          \* useDepositContextSync: mounted, and its arguments
    withdrawProps,      \* useWithdrawFlow: mounted, token.symbol, withdraw.isPending
    cleanupVariant,     \* the context and the ref under the sync hook with a cleanup
    monitor,            \* useTransactionMonitor: hash, receipt query, its state, its timer
    monitorHistory      \* history: hashes given, whose manual outcome, checks per hash

vars == <<byTokenType, order, transactions, version, listeners, shownStatusByHash,
          tokenSymbol, wagmi, prevState, emitted, calls, ops, toastCount, adopted,
          scenario, userTokens, data, depositState, lastOptimisticPosition,
          positions, positionsSorted, depositHistory, dmRefs, hashToTokenRegistry,
          toastRefs, globalSuccessHashRegistry, passed, firstOwner,
          formAmount, formBalance, formDecimals, formValid,
          syncProps, withdrawProps, cleanupVariant, monitor, monitorHistory>>

tmVars == <<byTokenType, order, transactions, version, listeners, shownStatusByHash,
            tokenSymbol, wagmi, prevState, emitted, calls, ops, toastCount, adopted,
            scenario>>

posVars == <<userTokens, data, depositState, lastOptimisticPosition, positions,
             positionsSorted, depositHistory>>

toastVars == <<dmRefs, hashToTokenRegistry, toastRefs, globalSuccessHashRegistry,
               passed, firstOwner>>

\* the state of the hooks outside the manager and the positions table
formVars == <<formAmount, formBalance, formDecimals, formValid>>

syncVars == <<syncProps, withdrawProps, cleanupVariant>>

monVars == <<monitor, monitorHistory>>

hookVars == <<toastVars, formVars, syncVars, monVars>>

----------------------------------------------------------------------------
(* Bounds and input domains *)

MaxVersion == 5
MaxCalls == 3

Tokens == {"USDC", "DAI"}
NoHash == "none"
Hashes == {"0xabc", "0xdef"}
NoError == "none"
Errors == {"E"}
Subscribers == {"L1", "L2"}
TerminalKinds == {"success", "error"}

WagmiState == [hash : Hashes \cup {NoHash}, isPending : BOOLEAN,
               isSuccess : BOOLEAN, error : Errors \cup {NoError}]

----------------------------------------------------------------------------
(* TransactionManager *)

makeKey(token, type) == token \o ":" \o type

\* The state threaded through one handler: the store, the toast hook's memory
\* and the history of the step.
Store == [byTokenType |-> byTokenType, order |-> order,
          transactions |-> transactions, version |-> version,
          listeners |-> listeners, shown |-> shownStatusByHash,
          emitted |-> <<>>, calls |-> [l \in Subscribers |-> 0], ops |-> <<>>,
          count |-> toastCount]

HasTx(s, key) == key \in DOMAIN s.byTokenType

\* getTransaction: the record or null; callers test HasTx first
getTransaction(s, token, type) == s.byTokenType[makeKey(token, type)]

\* getByHash: transactions holds a reference to a Transaction object.  An object
\* is dropped from byTokenType, or re-hashed, only by code that first deletes
\* transactions[its hash], so the referenced object is always the one stored
\* under the key this map names.
HasHash(s, hash) == hash \in DOMAIN s.transactions
getByHash(s, hash) == s.byTokenType[s.transactions[hash]]

MapDelete(f, k) == [x \in (DOMAIN f) \ {k} |-> f[x]]
MapSet(f, k, v) == [x \in (DOMAIN f) \cup {k} |-> IF x = k THEN v ELSE f[x]]
SeqWithout(q, k) == SelectSeq(q, LAMBDA x : x # k)
Bump(n) == IF n < 2 THEN n + 1 ELSE 2

makeToastKey(tx) == tx.type \o "-" \o tx.tokenSymbol

\* TOAST_CONFIGS[status].shouldShow; idle has no config
HasConfig(status) == status \in {"pending", "success", "error"}
shouldShow(tx) ==
    CASE tx.status = "pending" -> tx.hasSeenPending
      [] tx.status = "success" -> tx.hasSeenSuccess
      [] tx.status = "error"   -> tx.hasSeenPending
      [] OTHER                 -> FALSE

tryShowToast(s, tx) ==
    IF ~HasConfig(tx.status) THEN s
    ELSE IF tx.status \in s.shown[tx.hash] THEN s
    ELSE IF ~shouldShow(tx) THEN s
    ELSE [s EXCEPT
            !.emitted = Append(@, [kind |-> tx.status, id |-> makeToastKey(tx),
                                   hash |-> tx.hash]),
            !.count = IF tx.status \in TerminalKinds
                      THEN [@ EXCEPT ![tx.hash][tx.status] = Bump(@)]
                      ELSE @,
            !.shown = [@ EXCEPT ![tx.hash] = @ \cup {tx.status}]]

RECURSIVE ProcessTransactions(_, _)
ProcessTransactions(s, keys) ==
    IF keys = <<>> THEN s
    ELSE LET tx == s.byTokenType[Head(keys)]
             s1 == IF tx.hash = NoHash THEN s ELSE tryShowToast(s, tx)
         IN ProcessTransactions(s1, Tail(keys))

cleanupStaleHashes(s) ==
    LET currentHashes == {s.byTokenType[k].hash : k \in DOMAIN s.byTokenType}
    IN [s EXCEPT !.shown = [h \in Hashes |->
                              IF h \in currentHashes THEN @[h] ELSE {}]]

\* the subscription callback of useCentralizedTransactionToasts
ToastListener(s) == cleanupStaleHashes(ProcessTransactions(s, s.order))

\* variant: every callback is invoked, unsubscribed or not
notify_Everyone(s) ==
    LET s1 == [s EXCEPT !.version = @ + 1,
                        !.calls = [l \in Subscribers |-> @[l] + 1]]
    IN ToastListener(s1)

notify(s) ==
    LET s1 == [s EXCEPT !.version = @ + 1,
                        !.calls = [l \in Subscribers |->
                                     IF l \in s.listeners THEN @[l] + 1 ELSE @[l]]]
    IN ToastListener(s1)

\* history: a manager call, with the record it looked up before acting
Found(s, key) == IF key \in DOMAIN s.byTokenType THEN <<s.byTokenType[key]>> ELSE <<>>
FoundByHash(s, hash) ==
    IF hash \in DOMAIN s.transactions THEN <<s.byTokenType[s.transactions[hash]]>>
    ELSE <<>>
Logged(s, op, key, hash, status, before) ==
    [s EXCEPT !.ops = Append(@, [op |-> op, key |-> key, hash |-> hash,
                                 status |-> status, before |-> before])]

NewTransaction(token, type, hash) ==
    [hash |-> hash, tokenSymbol |-> token, type |-> type, status |-> "pending",
     error |-> NoError, hasSeenPending |-> (hash # NoHash),
     hasSeenSuccess |-> FALSE, hasShownToast |-> FALSE]

\* variant: the old record's hash stays indexed
startTransaction_KeepOldIndex(s, token, type, hash) ==
    LET key == makeKey(token, type)
        s0 == Logged(s, "startTransaction", key, hash, "pending", Found(s, key))
        t2 == IF hash # NoHash THEN MapSet(s0.transactions, hash, key)
              ELSE s0.transactions
    IN notify([s0 EXCEPT
                 !.transactions = t2,
                 !.order = IF HasTx(s0, key) THEN @ ELSE Append(@, key),
                 !.byTokenType = MapSet(@, key, NewTransaction(token, type, hash))])

startTransaction(s, token, type, hash) ==
    LET key == makeKey(token, type)
        s0 == Logged(s, "startTransaction", key, hash, "pending", Found(s, key))
        t1 == IF HasTx(s0, key) /\ s0.byTokenType[key].hash # NoHash
              THEN MapDelete(s0.transactions, s0.byTokenType[key].hash)
              ELSE s0.transactions
        t2 == IF hash # NoHash THEN MapSet(t1, hash, key) ELSE t1
    IN notify([s0 EXCEPT
                 !.transactions = t2,
                 !.order = IF HasTx(s0, key) THEN @ ELSE Append(@, key),
                 !.byTokenType = MapSet(@, key, NewTransaction(token, type, hash))])

\* variant: the hash is written on the record but not entered in the hash index
updateHash_NoIndex(s, token, type, hash) ==
    LET key == makeKey(token, type)
        s0 == Logged(s, "updateHash", key, hash, "", Found(s, key))
    IN IF ~HasTx(s0, key) THEN s0
       ELSE notify([s0 EXCEPT
                      !.byTokenType[key].hash = hash,
                      !.byTokenType[key].hasSeenPending = TRUE])

updateHash(s, token, type, hash) ==
    LET key == makeKey(token, type)
        s0 == Logged(s, "updateHash", key, hash, "", Found(s, key))
    IN IF ~HasTx(s0, key) THEN s0
       ELSE LET tx == s0.byTokenType[key]
                t1 == IF tx.hash # NoHash THEN MapDelete(s0.transactions, tx.hash)
                      ELSE s0.transactions
            IN notify([s0 EXCEPT
                         !.byTokenType[key].hash = hash,
                         !.byTokenType[key].hasSeenPending = TRUE,
                         !.transactions = MapSet(t1, hash, key)])

\* variant: the listeners are told even when the latch was already set
markPendingSeen_AlwaysNotify(s, hash) ==
    LET s0 == Logged(s, "markPendingSeen", "", hash, "", FoundByHash(s, hash))
    IN IF HasHash(s0, hash)
       THEN notify([s0 EXCEPT !.byTokenType[s0.transactions[hash]].hasSeenPending = TRUE])
       ELSE s0

markPendingSeen(s, hash) ==
    LET s0 == Logged(s, "markPendingSeen", "", hash, "", FoundByHash(s, hash))
    IN IF HasHash(s0, hash) /\ ~getByHash(s0, hash).hasSeenPending
       THEN notify([s0 EXCEPT !.byTokenType[s0.transactions[hash]].hasSeenPending = TRUE])
       ELSE s0

\* variant: the latch is set without telling the listeners
markSuccessSeen_Silent(s, hash) ==
    LET s0 == Logged(s, "markSuccessSeen", "", hash, "", FoundByHash(s, hash))
    IN IF HasHash(s0, hash) /\ ~getByHash(s0, hash).hasSeenSuccess
       THEN [s0 EXCEPT !.byTokenType[s0.transactions[hash]].hasSeenSuccess = TRUE]
       ELSE s0

markSuccessSeen(s, hash) ==
    LET s0 == Logged(s, "markSuccessSeen", "", hash, "", FoundByHash(s, hash))
    IN IF HasHash(s0, hash) /\ ~getByHash(s0, hash).hasSeenSuccess
       THEN notify([s0 EXCEPT !.byTokenType[s0.transactions[hash]].hasSeenSuccess = TRUE])
       ELSE s0

\* variant: the listeners are told even when the key has no record
updateStatus_AlwaysNotify(s, token, type, status, error) ==
    LET key == makeKey(token, type)
        s0 == Logged(s, "updateStatus", key, NoHash, status, Found(s, key))
    IN IF ~HasTx(s0, key) THEN notify(s0)
       ELSE notify([s0 EXCEPT
                      !.byTokenType[key].status = status,
                      !.byTokenType[key].error = IF error # NoError THEN error ELSE @])

updateStatus(s, token, type, status, error) ==
    LET key == makeKey(token, type)
        s0 == Logged(s, "updateStatus", key, NoHash, status, Found(s, key))
    IN IF ~HasTx(s0, key) THEN s0
       ELSE notify([s0 EXCEPT
                      !.byTokenType[key].status = status,
                      !.byTokenType[key].error = IF error # NoError THEN error ELSE @])

\* variant: the record is removed but its hash stays indexed
clearTransaction_KeepIndex(s, token, type) ==
    LET key == makeKey(token, type)
        s0 == Logged(s, "clearTransaction", key, NoHash, "", Found(s, key))
    IN notify([s0 EXCEPT
                 !.byTokenType = MapDelete(@, key),
                 !.order = SeqWithout(@, key)])

clearTransaction(s, token, type) ==
    LET key == makeKey(token, type)
        s0 == Logged(s, "clearTransaction", key, NoHash, "", Found(s, key))
        t1 == IF HasTx(s0, key) /\ s0.byTokenType[key].hash # NoHash
              THEN MapDelete(s0.transactions, s0.byTokenType[key].hash)
              ELSE s0.transactions
    IN notify([s0 EXCEPT
                 !.transactions = t1,
                 !.byTokenType = MapDelete(@, key),
                 !.order = SeqWithout(@, key)])

markToastShown(s, hash) ==
    LET s0 == Logged(s, "markToastShown", "", hash, "", FoundByHash(s, hash))
    IN IF HasHash(s0, hash)
       THEN notify([s0 EXCEPT !.byTokenType[s0.transactions[hash]].hasShownToast = TRUE])
       ELSE s0

clearAll(s) ==
    LET s0 == Logged(s, "clearAll", "", NoHash, "", <<>>)
    IN notify([s0 EXCEPT !.transactions = <<>>, !.byTokenType = <<>>,
                         !.order = <<>>])

----------------------------------------------------------------------------
(* useWagmiTransactionSync *)

InitialWagmiState == [hash |-> NoHash, isPending |-> FALSE, isSuccess |-> FALSE,
                      error |-> NoError]

detectStateChanges(current, prev) ==
    [hashChanged        |-> current.hash # prev.hash,
     transactionStarted |-> current.isPending /\ ~prev.isPending
                            /\ current.hash = NoHash,
     successOccurred    |-> current.isSuccess /\ ~prev.isSuccess,
     errorOccurred      |-> current.error # NoError /\ prev.error = NoError,
     transactionCleared |-> current.hash = NoHash /\ prev.hash # NoHash]

\* variant: a hash always opens a new record, an intent record is not reused
handleHashChange_AlwaysStart(s, token, type, newHash) ==
    IF ~HasTx(s, makeKey(token, type))
    THEN startTransaction(s, token, type, newHash)
    ELSE IF getTransaction(s, token, type).hash # newHash
    THEN startTransaction(s, token, type, newHash)
    ELSE s

handleHashChange(s, token, type, newHash) ==
    IF ~HasTx(s, makeKey(token, type))
    THEN startTransaction(s, token, type, newHash)
    ELSE IF getTransaction(s, token, type).hash = NoHash
    THEN updateHash(s, token, type, newHash)
    ELSE IF getTransaction(s, token, type).hash # newHash
    THEN startTransaction(s, token, type, newHash)
    ELSE s

handleTransactionLifecycle(s, token, type, current, changes) ==
    IF changes.transactionStarted
    THEN startTransaction(s, token, type, NoHash)
    ELSE IF changes.transactionCleared
    THEN clearTransaction(s, token, type)
    ELSE IF current.hash = NoHash THEN s
    ELSE LET s1 == IF changes.hashChanged
                   THEN handleHashChange(s, token, type, current.hash) ELSE s
             s2 == IF changes.successOccurred
                   THEN updateStatus(markSuccessSeen(s1, current.hash),
                                     token, type, "success", NoError)
                   ELSE s1
         IN IF changes.errorOccurred /\ current.error # NoError
            THEN updateStatus(s2, token, type, "error", current.error)
            ELSE s2

\* the effect of useWagmiTransactionSync, as useDepositMethod calls it
SyncEffect(s, token, current, prev) ==
    handleTransactionLifecycle(s, token, "deposit", current,
                               detectStateChanges(current, prev))

----------------------------------------------------------------------------
(* useATokenBalances: the positions list with its optimistic row.  The
   repository holds two versions of the hook: the one PositionsTable imports
   (features/tokens/hooks/use-atoken-balances.ts), which keeps the last
   optimistic row in a ref and appends it, and a variant that drops the row
   with isDepositing and sorts the list.  Both are computed at every render. *)

Balances == {0, 1, 100}
Null == <<>>
\* amounts the form hands over: a number, no number, nothing (amount || '')
Amounts == {"1", "x", ""}

\* decimals of the tokens.  The 18-decimals token is counted in units of
\* 10^10 of its smallest unit, which leaves it 8 decimals and keeps every case
\* of formatTokenAmount: zero, dust below the sixth decimal, visible
decimals == [t \in Tokens |-> IF t = "USDC" THEN 6 ELSE 8]

RECURSIVE Pow10(_)
Pow10(n) == IF n = 0 THEN 1 ELSE 10 * Pow10(n - 1)

\* parseUnits(value, decimals): "1" is 10^decimals, "x" throws
Parses(value) == value = "1"
parseUnits(value, dec) == Pow10(dec)

\* formatTokenAmount(amount, decimals, 6): the integer part and the first six
\* decimals; <<0, 0>> is the string '0'
formatTokenAmount(amount, dec) ==
    IF amount = 0 THEN <<0, 0>>
    ELSE <<amount \div Pow10(dec), (amount % Pow10(dec)) \div Pow10(dec - 6)>>

\* one result of the multicall
Results == {[status |-> "failure", result |-> 0]}
              \cup {[status |-> "success", result |-> b] : b \in Balances}

rawBalance(d, index) ==
    IF d[index].status = "success" THEN d[index].result ELSE 0

\* userTokens.findIndex(t => t.symbol === symbol); 0 stands for -1
findIndex(ut, symbol) ==
    IF \E i \in 1..Len(ut) : ut[i] = symbol
    THEN CHOOSE i \in 1..Len(ut) : ut[i] = symbol /\ \A j \in 1..(i - 1) : ut[j] # symbol
    ELSE 0

balances(ut, d) ==
    [i \in 1..Len(ut) |->
        [symbol |-> ut[i], raw |-> rawBalance(d, i),
         formatted |-> formatTokenAmount(rawBalance(d, i), decimals[ut[i]]),
         isOptimistic |-> FALSE]]

basePositions(ut, d) ==
    SelectSeq(balances(ut, d), LAMBDA b : b.raw > 0 /\ b.formatted # <<0, 0>>)

\* deposit-context-types / deposit-context-reducer
initialTransactionState ==
    [phase |-> "idle", tokenSymbol |-> Null, amount |-> Null, type |-> Null]

isDepositing(st) == st.phase = "depositing" \/ st.phase = "approving"

isWithdrawing(st) == st.phase = "withdrawing"

\* variant: START_WITHDRAWING leaves the amount of the state as it is
depositContextReducer_KeepAmount(st, action) ==
    CASE action.type = "START_APPROVING" ->
            [phase |-> "approving", tokenSymbol |-> <<action.tokenSymbol>>,
             amount |-> <<action.amount>>, type |-> <<"deposit">>]
      [] action.type = "START_DEPOSITING" ->
            [phase |-> "depositing", tokenSymbol |-> <<action.tokenSymbol>>,
             amount |-> <<action.amount>>, type |-> <<"deposit">>]
      [] action.type = "START_WITHDRAWING" ->
            [phase |-> "withdrawing", tokenSymbol |-> <<action.tokenSymbol>>,
             amount |-> st.amount, type |-> <<"withdraw">>]
      [] action.type \in {"COMPLETE_TRANSACTION", "RESET"} -> initialTransactionState
      [] OTHER -> st

depositContextReducer(st, action) ==
    CASE action.type = "START_APPROVING" ->
            [phase |-> "approving", tokenSymbol |-> <<action.tokenSymbol>>,
             amount |-> <<action.amount>>, type |-> <<"deposit">>]
      [] action.type = "START_DEPOSITING" ->
            [phase |-> "depositing", tokenSymbol |-> <<action.tokenSymbol>>,
             amount |-> <<action.amount>>, type |-> <<"deposit">>]
      [] action.type = "START_WITHDRAWING" ->
            [phase |-> "withdrawing", tokenSymbol |-> <<action.tokenSymbol>>,
             amount |-> Null, type |-> <<"withdraw">>]
      [] action.type \in {"COMPLETE_TRANSACTION", "RESET"} -> initialTransactionState
      [] OTHER -> st

\* !depositingAmount: null or the empty string
Falsy(amount) == amount = Null \/ amount = <<"">>

\* the row built from the entered amount, or null
OptimisticRow(ut, d, st) ==
    LET index == findIndex(ut, st.tokenSymbol[1])
    IN IF index = 0 THEN Null
       ELSE IF rawBalance(d, index) > 0 THEN Null
       ELSE IF ~Parses(st.amount[1]) THEN Null
       ELSE LET rawAmount == parseUnits(st.amount[1], decimals[ut[index]])
            IN <<[symbol |-> ut[index], raw |-> rawAmount,
                  formatted |-> formatTokenAmount(rawAmount, decimals[ut[index]]),
                  isOptimistic |-> TRUE]>>

\* use-atoken-balances.ts: no look at isDepositing
currentOptimisticPosition(ut, d, st) ==
    IF st.tokenSymbol = Null \/ Falsy(st.amount) THEN Null
    ELSE OptimisticRow(ut, d, st)

\* the sorting variant: only while isDepositing
optimisticPosition(ut, d, st) ==
    IF ~isDepositing(st) \/ st.tokenSymbol = Null \/ Falsy(st.amount) THEN Null
    ELSE OptimisticRow(ut, d, st)

\* variant: the base row of the token is not removed
positionsAppended_KeepBase(optimistic, base) ==
    IF optimistic # Null THEN base \o optimistic ELSE base

\* use-atoken-balances.ts: the row replaces the base row of its token and goes last
positionsAppended(optimistic, base) ==
    IF optimistic # Null
    THEN SelectSeq(base, LAMBDA p : p.symbol # optimistic[1].symbol) \o optimistic
    ELSE base

\* a.token.symbol.localeCompare(b.token.symbol) < 0, on the symbols in use
\* localeCompare orders them alphabetically
localeCompareBefore(a, b) == a = "DAI" /\ b = "USDC"

\* Array.prototype.sort is stable: a row goes behind the rows it does not precede
RECURSIVE sortBySymbol(_)
sortBySymbol(rows) ==
    IF rows = <<>> THEN <<>>
    ELSE LET rest == sortBySymbol(Tail(rows))
             x == Head(rows)
             front == SelectSeq(rest, LAMBDA r : localeCompareBefore(r.symbol, x.symbol))
             back == SelectSeq(rest, LAMBDA r : ~localeCompareBefore(r.symbol, x.symbol))
         IN front \o <<x>> \o back

positionsBySymbol(optimistic, base) == sortBySymbol(optimistic \o base)

\* the two effects that maintain lastOptimisticPosition, run after the render
lastOptimisticAfterEffects(ut, d, current, last) ==
    LET kept == IF current # Null THEN current ELSE last
    IN IF kept = Null THEN Null
       ELSE LET tokenIndex == findIndex(ut, kept[1].symbol)
            IN IF tokenIndex # 0 /\ rawBalance(d, tokenIndex) > 0 THEN Null ELSE kept

\* history of the deposit in flight: seen = the reader has reported a non-zero
\* balance of its token during it; ended = the token of the last deposit that
\* went back to idle (COMPLETE_TRANSACTION, RESET) without that, until the
\* next deposit starts
DepositHistoryNext(d, st, sameDeposit) ==
    LET index == IF st.tokenSymbol = Null THEN 0
                 ELSE findIndex(userTokens, st.tokenSymbol[1])
        nonZero == index # 0 /\ rawBalance(d, index) > 0
    IN [seen  |-> isDepositing(st)
                  /\ ((sameDeposit /\ depositHistory.seen) \/ nonZero),
        ended |-> IF isDepositing(st) THEN Null
                  ELSE IF isDepositing(depositState)
                  THEN IF st.phase = "idle" /\ ~depositHistory.seen
                       THEN depositState.tokenSymbol ELSE Null
                  ELSE depositHistory.ended]

\* one render of useATokenBalances with the wallet connected, and its effects
Render(d, st, sameDeposit) ==
    LET current == currentOptimisticPosition(userTokens, d, st)
        shown == IF current # Null THEN current ELSE lastOptimisticPosition
    IN /\ data' = d
       /\ depositState' = st
       /\ positions' = positionsAppended(shown, basePositions(userTokens, d))
       /\ positionsSorted' = positionsBySymbol(optimisticPosition(userTokens, d, st),
                                               basePositions(userTokens, d))
       /\ lastOptimisticPosition' =
             lastOptimisticAfterEffects(userTokens, d, current, lastOptimisticPosition)
       /\ depositHistory' = DepositHistoryNext(d, st, sameDeposit)
       /\ UNCHANGED userTokens
       /\ UNCHANGED tmVars
       /\ UNCHANGED hookVars

\* the balance reader delivers new results (refetch, interval, failure)
DataArrives ==
    \E d \in [1..Len(userTokens) -> Results] :
        d # data /\ Render(d, depositState, TRUE)

StartApproving ==
    \E t \in Tokens, a \in Amounts :
        Render(data, depositContextReducer(depositState,
                   [type |-> "START_APPROVING", tokenSymbol |-> t, amount |-> a]),
               FALSE)

\* after the approval the same deposit goes on; otherwise a deposit starts
StartDepositing ==
    \E t \in Tokens, a \in Amounts :
        Render(data, depositContextReducer(depositState,
                   [type |-> "START_DEPOSITING", tokenSymbol |-> t, amount |-> a]),
               depositState.phase = "approving" /\ depositState.tokenSymbol = <<t>>
                   /\ depositState.amount = <<a>>)

StartWithdrawing ==
    \E t \in Tokens :
        Render(data, depositContextReducer(depositState,
                   [type |-> "START_WITHDRAWING", tokenSymbol |-> t]), FALSE)

\* completeTransaction() or reset()
CompleteTransaction ==
    \E ty \in {"COMPLETE_TRANSACTION", "RESET"} :
        Render(data, depositContextReducer(depositState, [type |-> ty]), FALSE)

\* the component renders again with nothing new (a parent rendered)
Rerender == Render(data, depositState, TRUE)

\* the orders useUserTokens can deliver: tokens with a wallet balance first,
\* then alphabetically
UserTokenOrders == {<<"USDC", "DAI">>, <<"DAI", "USDC">>}

NothingRendered ==
    /\ data = [i \in 1..2 |-> [status |-> "failure", result |-> 0]]
    /\ depositState = initialTransactionState
    /\ lastOptimisticPosition = Null
    /\ positions = <<>>
    /\ positionsSorted = <<>>
    /\ depositHistory = [seen |-> FALSE, ended |-> Null]

----------------------------------------------------------------------------
(* useDepositMethod in the version that owns the toasts: it filters the wallet
   tuple through its refs and the module-level hashToTokenRegistry and hands
   the result to useTransactionToast *)

NoOwner == "none"

InitialDmRefs(token) ==
    [lastHashWithError |-> NoHash, lastTokenSymbol |-> token,
     lastSeenHashForToken |-> NoHash, tokenJustChanged |-> FALSE]

\* "Reset error tracking when token changes"
ResetOnTokenChange(r, token) ==
    IF r.lastTokenSymbol # token
    THEN [lastHashWithError |-> NoHash, lastTokenSymbol |-> token,
          lastSeenHashForToken |-> NoHash, tokenJustChanged |-> TRUE]
    ELSE r

\* the hash tracking of the render: after a token change a hash registered
\* for another token is rejected; in normal operation every new hash is
\* registered for the current token
TrackHash(r, reg, token, hash) ==
    IF hash = NoHash \/ hash = r.lastSeenHashForToken
    THEN [refs |-> r, registry |-> reg]
    ELSE IF r.tokenJustChanged /\ hash \in DOMAIN reg /\ reg[hash] # token
    THEN [refs |-> r, registry |-> reg]
    ELSE [refs |-> [r EXCEPT !.lastSeenHashForToken = hash,
                             !.tokenJustChanged = FALSE],
          registry |-> MapSet(reg, hash, token)]

\* "Only consider error valid if ..."
ErrorFilter(r, w) ==
    IF ~r.tokenJustChanged /\ w.error # NoError /\ w.hash # NoHash
    THEN [refs |-> [r EXCEPT !.lastHashWithError = w.hash], isError |-> TRUE]
    ELSE IF w.error # NoError /\ w.hash = NoHash
    THEN [refs |-> r, isError |-> FALSE]
    ELSE IF w.error = NoError /\ w.hash # NoHash
    THEN [refs |-> IF r.lastHashWithError = w.hash
                   THEN [r EXCEPT !.lastHashWithError = NoHash] ELSE r,
          isError |-> FALSE]
    ELSE [refs |-> r, isError |-> FALSE]

\* the render of useDepositMethod up to its call of useTransactionToast
useDepositMethod(r, reg, token, w) ==
    LET t == TrackHash(ResetOnTokenChange(r, token), reg, token, w.hash)
        e == ErrorFilter(t.refs, w)
        stale == e.refs.tokenJustChanged
    IN [refs |-> e.refs,
        registry |-> t.registry,
        args |-> [hash |-> IF stale THEN NoHash ELSE w.hash,
                  isPending |-> ~stale /\ w.isPending,
                  isSuccess |-> ~stale /\ w.isSuccess,
                  isError |-> e.isError],
        toastId |-> "deposit-" \o token]

(* useTransactionToast *)

InitialToastRefs ==
    [currentHash |-> NoHash, hasShownSuccess |-> FALSE, hasShownError |-> FALSE,
     previousIsError |-> FALSE]

\* first effect: "Reset flags when transaction hash changes"
ResetOnHashChange(t, hash) ==
    IF hash # NoHash /\ hash # t.currentHash
    THEN [InitialToastRefs EXCEPT !.currentHash = hash]
    ELSE IF hash = NoHash /\ t.currentHash # NoHash
    THEN InitialToastRefs
    ELSE t

Toast(kind, toastId, hash) == [kind |-> kind, id |-> toastId, hash |-> hash]

\* second effect: "Show appropriate toast based on transaction state"
ShowToast(t, g, a, toastId, count) ==
    LET quiet == [refs |-> t, registry |-> g, emitted |-> <<>>, count |-> count]
    IN IF a.hash = NoHash \/ a.hash # t.currentHash THEN quiet
       ELSE IF a.isPending /\ ~a.isSuccess
       THEN [quiet EXCEPT !.refs.previousIsError = a.isError,
                          !.emitted = <<Toast("pending", toastId, a.hash)>>]
       ELSE IF a.isSuccess /\ ~t.hasShownSuccess /\ a.hash \notin g
       THEN [refs |-> [t EXCEPT !.hasShownSuccess = TRUE,
                                !.previousIsError = a.isError],
             registry |-> g \cup {a.hash},
             emitted |-> <<Toast("success", toastId, a.hash)>>,
             count |-> [count EXCEPT ![a.hash]["success"] = Bump(@)]]
       ELSE IF a.isError /\ ~t.previousIsError /\ ~t.hasShownError
               /\ ~a.isPending /\ ~a.isSuccess
       THEN [refs |-> [t EXCEPT !.hasShownError = TRUE,
                                !.previousIsError = a.isError],
             registry |-> g,
             emitted |-> <<Toast("error", toastId, a.hash)>>,
             count |-> [count EXCEPT ![a.hash]["error"] = Bump(@)]]
       ELSE [quiet EXCEPT !.refs.previousIsError = a.isError]

\* both effects of one commit, in declaration order
useTransactionToast(t, g, a, toastId, count) ==
    ShowToast(ResetOnHashChange(t, a.hash), g, a, toastId, count)

NothingPassed == [hash |-> NoHash, isPending |-> FALSE, isSuccess |-> FALSE,
                  isError |-> FALSE]

\* a useDepositMethod instance just mounted for token, nothing registered
MountedWith(token) ==
    /\ dmRefs = InitialDmRefs(token)
    /\ hashToTokenRegistry = <<>>
    /\ toastRefs = InitialToastRefs
    /\ globalSuccessHashRegistry = {}
    /\ passed = NothingPassed
    /\ firstOwner = [h \in Hashes |-> NoOwner]

ToastsUnmounted == MountedWith("USDC")

----------------------------------------------------------------------------
(* isValidAmount of useDepositFlow, useWithdrawFlow and useAmountValidation
   (the three bodies are the same).  A string is a sequence of characters.
   parseUnits is viem's: it accepts an optional minus sign, digits, at most
   one dot and digits, drops the trailing zeros of the fraction and rounds a fraction longer than the
   token's decimals half-up at the last kept digit. *)

MaxAmountLen == 5

Digits == {"0", "1", "5", "9"}
Chars == Digits \cup {"-", ".", "x"}
Decimals == {1, 2}

\* balanceFormatted: output of formatTokenAmount, or '' while loading
BalanceStrings == {<<>>, <<"1">>, <<"1", "0">>, <<"0", ".", "1">>, <<"1", ".", "5">>}

DigitValue(c) == CASE c = "0" -> 0 [] c = "1" -> 1 [] c = "5" -> 5 [] c = "9" -> 9

\* BigInt of a string of digits; BigInt('') is 0n
RECURSIVE BigIntOf(_)
BigIntOf(ds) ==
    IF ds = <<>> THEN 0
    ELSE BigIntOf(SubSeq(ds, 1, Len(ds) - 1)) * 10 + DigitValue(ds[Len(ds)])

\* fraction.replace(/(0+)$/, '')
RECURSIVE TrimTrailingZeros(_)
TrimTrailingZeros(ds) ==
    IF ds # <<>> /\ ds[Len(ds)] = "0"
    THEN TrimTrailingZeros(SubSeq(ds, 1, Len(ds) - 1))
    ELSE ds

DotsOf(v) == {i \in 1..Len(v) : v[i] = "."}

\* the regular expression test of parseUnits
MatchesDecimal(v) ==
    /\ Cardinality(DotsOf(v)) <= 1
    /\ \A i \in 1..Len(v) :
          \/ v[i] \in Digits
          \/ v[i] = "."
          \/ v[i] = "-" /\ i = 1

\* parseUnits(value, dec) for a value that passed the test; dec >= 1
parseUnitsOf(v, dec) ==
    LET dot == IF DotsOf(v) = {} THEN Len(v) + 1 ELSE CHOOSE i \in DotsOf(v) : TRUE
        signed == SubSeq(v, 1, dot - 1)
        negative == signed # <<>> /\ signed[1] = "-"
        integer == IF negative THEN Tail(signed) ELSE signed
        fraction == TrimTrailingZeros(IF DotsOf(v) = {} THEN <<"0">>
                                      ELSE SubSeq(v, dot + 1, Len(v)))
        left == SubSeq(fraction, 1, dec - 1)
        rounded == DigitValue(fraction[dec])
                   + (IF DigitValue(fraction[dec + 1]) >= 5 THEN 1 ELSE 0)
        fractionUnits == IF Len(fraction) > dec
                         THEN BigIntOf(left) * 10 + rounded
                         ELSE BigIntOf(fraction) * Pow10(dec - Len(fraction))
        magnitude == BigIntOf(integer) * Pow10(dec) + fractionUnits
    IN IF negative THEN 0 - magnitude ELSE magnitude

\* parseUnits throws InvalidDecimalNumberError
Throws(v) == ~MatchesDecimal(v)

\* variant: the comparison with the balance is strict
isValidAmount_BelowBalance(a, b, dec) ==
    IF a = <<>> THEN FALSE
    ELSE IF Throws(a) \/ Throws(IF b = <<>> THEN <<"0">> ELSE b) THEN FALSE
    ELSE LET amountBigInt == parseUnitsOf(a, dec)
             balanceBigInt == parseUnitsOf(IF b = <<>> THEN <<"0">> ELSE b, dec)
         IN amountBigInt > 0 /\ amountBigInt < balanceBigInt

isValidAmount(a, b, dec) ==
    IF a = <<>> THEN FALSE
    ELSE IF Throws(a) \/ Throws(IF b = <<>> THEN <<"0">> ELSE b) THEN FALSE
    ELSE LET amountBigInt == parseUnitsOf(a, dec)
             balanceBigInt == parseUnitsOf(IF b = <<>> THEN <<"0">> ELSE b, dec)
         IN amountBigInt > 0 /\ amountBigInt <= balanceBigInt

\* one render of the form
RenderForm(a, b, dec) ==
    /\ formAmount' = a
    /\ formBalance' = b
    /\ formDecimals' = dec
    /\ formValid' = isValidAmount(a, b, dec)
    /\ UNCHANGED tmVars
    /\ UNCHANGED posVars
    /\ UNCHANGED toastVars
    /\ UNCHANGED syncVars
    /\ UNCHANGED monVars

\* the user types a character into the amount field
TypeChar ==
    \E c \in Chars :
        /\ Len(formAmount) < MaxAmountLen
        /\ RenderForm(Append(formAmount, c), formBalance, formDecimals)

\* the user deletes the last character
Backspace ==
    /\ formAmount # <<>>
    /\ RenderForm(SubSeq(formAmount, 1, Len(formAmount) - 1), formBalance, formDecimals)

\* the balance is refetched
BalanceChanges ==
    \E b \in BalanceStrings \ {formBalance} : RenderForm(formAmount, b, formDecimals)

\* the form is given another token
TokenChanges ==
    \E dec \in Decimals \ {formDecimals} : RenderForm(formAmount, formBalance, dec)

FormUntouched ==
    /\ formAmount = <<>>
    /\ formBalance = <<>>
    /\ formDecimals = 2
    /\ formValid = FALSE

----------------------------------------------------------------------------
(* useDepositContextSync and the context effect of useWithdrawFlow: both
   dispatch to the one reducer state of DepositProvider.  The repository holds
   the sync hook in several versions: hooks/use-deposit-context-sync.ts runs
   on [isPending, tokenSymbol, amount] and has no cleanup; another version
   keeps a hasStartedTransaction ref and completes the transaction in the
   effect's cleanup.  The second one is followed in cleanupVariant. *)

SyncProps == [mounted : {TRUE}, tokenSymbol : Tokens, isApproving : BOOLEAN,
              isDepositing : BOOLEAN, isSuccess : BOOLEAN, amount : Amounts]

NoSyncProps == [mounted |-> FALSE, tokenSymbol |-> "USDC", isApproving |-> FALSE,
                isDepositing |-> FALSE, isSuccess |-> FALSE, amount |-> ""]

WithdrawProps == [mounted : {TRUE}, tokenSymbol : Tokens, isPending : BOOLEAN]

NoWithdrawProps == [mounted |-> FALSE, tokenSymbol |-> "USDC", isPending |-> FALSE]

isPendingOf(p) == p.isApproving \/ p.isDepositing

\* the effect body of hooks/use-deposit-context-sync.ts
SyncEffectBody(st, p) ==
    IF p.isApproving
    THEN depositContextReducer(st, [type |-> "START_APPROVING",
                                    tokenSymbol |-> p.tokenSymbol, amount |-> p.amount])
    ELSE IF p.isDepositing
    THEN depositContextReducer(st, [type |-> "START_DEPOSITING",
                                    tokenSymbol |-> p.tokenSymbol, amount |-> p.amount])
    ELSE depositContextReducer(st, [type |-> "COMPLETE_TRANSACTION"])

\* its dependency list: [isPending, tokenSymbol, amount]
SyncDepsChanged(p, q) ==
    \/ isPendingOf(p) # isPendingOf(q)
    \/ p.tokenSymbol # q.tokenSymbol
    \/ p.amount # q.amount

\* the version with the ref: the cleanup returned by the effect, closed over
\* the props of the render that created it
CleanupOf(v, p) ==
    IF v.hasStartedTransaction /\ isPendingOf(p)
    THEN [state |-> depositContextReducer(v.state, [type |-> "COMPLETE_TRANSACTION"]),
          hasStartedTransaction |-> FALSE]
    ELSE v

\* the version with the ref: the effect body
EffectWithRef(v, p) ==
    IF p.isApproving
    THEN [state |-> depositContextReducer(v.state,
                        [type |-> "START_APPROVING", tokenSymbol |-> p.tokenSymbol,
                         amount |-> p.amount]),
          hasStartedTransaction |-> TRUE]
    ELSE IF p.isDepositing
    THEN [state |-> depositContextReducer(v.state,
                        [type |-> "START_DEPOSITING", tokenSymbol |-> p.tokenSymbol,
                         amount |-> p.amount]),
          hasStartedTransaction |-> TRUE]
    ELSE IF v.hasStartedTransaction
    THEN [state |-> depositContextReducer(v.state, [type |-> "COMPLETE_TRANSACTION"]),
          hasStartedTransaction |-> FALSE]
    ELSE v

\* its dependency list: [isApproving, isDepositing, isSuccess, tokenSymbol, amount]
RefDepsChanged(p, q) == [p EXCEPT !.mounted = TRUE] # [q EXCEPT !.mounted = TRUE]

\* the context effect of useWithdrawFlow
WithdrawEffectBody(st, w) ==
    IF w.isPending
    THEN depositContextReducer(st, [type |-> "START_WITHDRAWING",
                                    tokenSymbol |-> w.tokenSymbol])
    ELSE depositContextReducer(st, [type |-> "COMPLETE_TRANSACTION"])

SyncFrame ==
    /\ UNCHANGED tmVars
    /\ UNCHANGED <<userTokens, data, lastOptimisticPosition, positions,
                   positionsSorted, depositHistory>>
    /\ UNCHANGED toastVars
    /\ UNCHANGED formVars
    /\ UNCHANGED monVars

\* the component calling useDepositContextSync mounts: the effect runs
SyncMounts ==
    \E p \in SyncProps :
        /\ ~syncProps.mounted
        /\ syncProps' = p
        /\ depositState' = SyncEffectBody(depositState, p)
        /\ cleanupVariant' = EffectWithRef([cleanupVariant EXCEPT
                                               !.hasStartedTransaction = FALSE], p)
        /\ UNCHANGED withdrawProps
        /\ SyncFrame

\* it renders with other arguments: each version re-runs its effect when one
\* of its dependencies changed
SyncPropsChange ==
    \E p \in SyncProps :
        /\ syncProps.mounted
        /\ p # syncProps
        /\ syncProps' = p
        /\ depositState' = IF SyncDepsChanged(syncProps, p)
                           THEN SyncEffectBody(depositState, p) ELSE depositState
        /\ cleanupVariant' = IF RefDepsChanged(syncProps, p)
                             THEN EffectWithRef(CleanupOf(cleanupVariant, syncProps), p)
                             ELSE cleanupVariant
        /\ UNCHANGED withdrawProps
        /\ SyncFrame

\* it unmounts: only the version with the ref has a cleanup to run
SyncUnmounts ==
    /\ syncProps.mounted
    /\ syncProps' = NoSyncProps
    /\ UNCHANGED depositState
    /\ cleanupVariant' = CleanupOf(cleanupVariant, syncProps)
    /\ UNCHANGED withdrawProps
    /\ SyncFrame

\* the effect of useWithdrawFlow runs: at mount, when token.symbol changes,
\* when withdraw.isPending toggles
WithdrawRenders ==
    \E w \in WithdrawProps :
        /\ w # withdrawProps
        /\ withdrawProps' = w
        /\ depositState' = WithdrawEffectBody(depositState, w)
        /\ cleanupVariant' = [cleanupVariant EXCEPT
                                 !.state = WithdrawEffectBody(@, w)]
        /\ UNCHANGED syncProps
        /\ SyncFrame

WithdrawUnmounts ==
    /\ withdrawProps.mounted
    /\ withdrawProps' = NoWithdrawProps
    /\ UNCHANGED <<depositState, cleanupVariant, syncProps>>
    /\ SyncFrame

SyncUnmounted ==
    /\ syncProps = NoSyncProps
    /\ withdrawProps = NoWithdrawProps
    /\ cleanupVariant = [state |-> initialTransactionState,
                         hasStartedTransaction |-> FALSE]

----------------------------------------------------------------------------
(* useTransactionMonitor: the receipt query of wagmi for the given hash, the
   two useState cells, and the timer of the fallback check.  A hash names one
   transaction: once the caller's hash has moved on it does not come back, and
   the receipt query of a hash goes from loading to success or error once. *)

Receipts == {"loading", "success", "error"}
MonitoredHashes == Hashes \cup {"0x123"}
Reverted == "Transaction reverted"

\* useWaitForTransactionReceipt({ hash })
isConfirmingOf(m) == m.hash # NoHash /\ m.receipt = "loading"
isSuccessOf(m) == m.hash # NoHash /\ m.receipt = "success"
receiptErrorOf(m) == IF m.hash # NoHash /\ m.receipt = "error" THEN "E" ELSE NoError

\* what the hook returns
useTransactionMonitor(m) ==
    LET txError == IF receiptErrorOf(m) # NoError THEN receiptErrorOf(m)
                   ELSE m.manualReceiptError
        isTransactionComplete ==
            \/ txError # NoError
            \/ isSuccessOf(m)
            \/ m.manualReceiptChecked
            \/ (m.hash # NoHash /\ ~isConfirmingOf(m))
    IN [isConfirming |-> IF isTransactionComplete THEN FALSE ELSE isConfirmingOf(m),
        isSuccess |-> isSuccessOf(m),
        receiptError |-> receiptErrorOf(m),
        manualReceiptError |-> m.manualReceiptError,
        manualReceiptChecked |-> m.manualReceiptChecked,
        txError |-> txError]

\* the effect after a render: when a dependency changed the cleanup of the
\* previous run cancels its timer, and the new run starts one unless it
\* returns early
MonitorEffect(old, new) ==
    IF <<old.hash, isConfirmingOf(old), old.manualReceiptChecked>>
         = <<new.hash, isConfirmingOf(new), new.manualReceiptChecked>>
    THEN new
    ELSE [new EXCEPT !.timer =
            IF new.hash = NoHash \/ ~isConfirmingOf(new) \/ new.manualReceiptChecked
            THEN "none" ELSE "waiting"]

MonitorFrame ==
    /\ UNCHANGED tmVars
    /\ UNCHANGED posVars
    /\ UNCHANGED toastVars
    /\ UNCHANGED formVars
    /\ UNCHANGED syncVars

\* the caller's hash changes: a new transaction, or the wallet hook was reset
HashChanges ==
    \E h \in (MonitoredHashes \ monitorHistory.given) \cup {NoHash}, r \in Receipts :
        /\ h # monitor.hash
        /\ h = NoHash => r = "loading"
        /\ monitor' = MonitorEffect(monitor, [monitor EXCEPT !.hash = h, !.receipt = r])
        /\ monitorHistory' = [monitorHistory EXCEPT !.given = @ \cup ({h} \ {NoHash})]
        /\ MonitorFrame

\* wagmi's receipt query for the hash settles
ReceiptSettles ==
    \E r \in {"success", "error"} :
        /\ isConfirmingOf(monitor)
        /\ monitor' = MonitorEffect(monitor, [monitor EXCEPT !.receipt = r])
        /\ UNCHANGED monitorHistory
        /\ MonitorFrame

\* TX_MONITOR_TIMEOUT_MS passed: checkReceipt asks the node for the receipt
TimerElapses ==
    /\ monitor.timer = "waiting"
    /\ monitor' = [monitor EXCEPT !.timer = "fetching"]
    /\ monitorHistory' = [monitorHistory EXCEPT !.fired[monitor.hash] = @ + 1]
    /\ MonitorFrame

\* getTransactionReceipt answers, or throws because the transaction is not
\* mined yet
ReceiptFetched ==
    \E outcome \in {"success", "reverted", "throws"} :
        /\ monitor.timer = "fetching"
        /\ IF outcome = "throws"
           THEN /\ monitor' = [monitor EXCEPT !.timer = "none"]
                /\ UNCHANGED monitorHistory
           ELSE /\ monitor' = MonitorEffect(monitor,
                      [monitor EXCEPT
                         !.timer = "none",
                         !.manualReceiptChecked = TRUE,
                         !.manualReceiptError =
                             IF outcome = "reverted" THEN Reverted ELSE @])
                /\ monitorHistory' = [monitorHistory EXCEPT !.manualFor = monitor.hash]
        /\ MonitorFrame

MonitorMounted ==
    /\ monitor = [hash |-> NoHash, receipt |-> "loading",
                  manualReceiptChecked |-> FALSE, manualReceiptError |-> NoError,
                  timer |-> "none"]
    /\ monitorHistory = [given |-> {}, manualFor |-> NoHash,
                         fired |-> [h \in MonitoredHashes |-> 0]]

HooksUnmounted ==
    ToastsUnmounted /\ FormUntouched /\ SyncUnmounted /\ MonitorMounted

----------------------------------------------------------------------------
(* The component tree: one mounted useDepositMethod, the toast hook at the
   root, and the components subscribed through useTransactionManager *)

\* history: key takes over a hash in this step (its record did not carry it
\* before) while the record of another key, which had not itself taken it
\* over, carries that hash
AdoptedNext(r, key) ==
    IF key \notin DOMAIN r.byTokenType \/ r.byTokenType[key].hash = NoHash
    THEN adopted \ {key}
    ELSE IF key \in DOMAIN byTokenType
            /\ byTokenType[key].hash = r.byTokenType[key].hash
    THEN adopted
    ELSE IF \E k \in (DOMAIN byTokenType) \ ({key} \cup adopted) :
               byTokenType[k].hash = r.byTokenType[key].hash
    THEN adopted \cup {key}
    ELSE adopted \ {key}

\* the USDC deposit scenario: intent, hash, success, observed from a fresh store
ScenarioNext(kind, token, current) ==
    IF kind = "observe" /\ token = "USDC" /\ scenario = "start"
       /\ current = [hash |-> NoHash, isPending |-> TRUE, isSuccess |-> FALSE,
                     error |-> NoError]
    THEN "intent"
    ELSE IF kind = "observe" /\ token = "USDC" /\ scenario = "intent"
       /\ current = [hash |-> "0xabc", isPending |-> TRUE, isSuccess |-> FALSE,
                     error |-> NoError]
    THEN "submitted"
    ELSE IF kind = "observe" /\ token = "USDC" /\ scenario = "submitted"
       /\ current = [hash |-> "0xabc", isPending |-> FALSE, isSuccess |-> TRUE,
                     error |-> NoError]
    THEN "confirmed"
    ELSE "off"

\* one run of the effect of useWagmiTransactionSync under key token:deposit
Reconcile(kind, token, current, prev) ==
    LET r == SyncEffect(Store, token, current, prev)
    IN /\ version < MaxVersion
       /\ byTokenType' = r.byTokenType
       /\ order' = r.order
       /\ transactions' = r.transactions
       /\ version' = r.version
       /\ shownStatusByHash' = r.shown
       /\ emitted' = r.emitted
       /\ calls' = r.calls
       /\ ops' = r.ops
       /\ toastCount' = r.count
       /\ tokenSymbol' = token
       /\ wagmi' = current
       /\ prevState' = current
       /\ adopted' = AdoptedNext(r, makeKey(token, "deposit"))
       /\ scenario' = ScenarioNext(kind, token, current)
       /\ UNCHANGED listeners
       /\ UNCHANGED posVars
       /\ UNCHANGED hookVars

\* the wallet hooks report a new tuple; the effect's dependencies changed
Observe ==
    \E w \in WagmiState :
        /\ w # wagmi
        /\ Reconcile("observe", tokenSymbol, w, prevState)

\* the token prop changes on the mounted hook: prevState.current is kept and the
\* tuple is not reset
SwitchToken ==
    \E t \in Tokens :
        /\ t # tokenSymbol
        /\ Reconcile("switch", t, wagmi, prevState)

\* a fresh useDepositMethod mounts and reads the un-reset tuple
Remount ==
    \E t \in Tokens : Reconcile("remount", t, wagmi, InitialWagmiState)

Init ==
    /\ byTokenType = <<>>
    /\ order = <<>>
    /\ transactions = <<>>
    /\ version = 0
    /\ listeners = Subscribers
    /\ shownStatusByHash = [h \in Hashes |-> {}]
    /\ tokenSymbol \in Tokens
    /\ wagmi = InitialWagmiState
    /\ prevState = InitialWagmiState
    /\ emitted = <<>>
    /\ calls = [l \in Subscribers |-> 0]
    /\ ops = <<>>
    /\ toastCount = [h \in Hashes |-> [k \in TerminalKinds |-> 0]]
    /\ adopted = {}
    /\ scenario = "start"
    /\ userTokens = <<"DAI", "USDC">>
    /\ NothingRendered
    /\ HooksUnmounted

Next == Observe \/ SwitchToken \/ Remount

Spec == Init /\ [][Next]_vars

----------------------------------------------------------------------------
(* The TransactionManager singleton called directly: any caller, any
   arguments, components subscribing and unsubscribing *)

Types == {"deposit", "withdraw"}
Statuses == {"pending", "success", "error", "idle"}

\* one call of a manager method; the reconciler is not involved
Call(r) ==
    /\ version < MaxCalls
    /\ byTokenType' = r.byTokenType
    /\ order' = r.order
    /\ transactions' = r.transactions
    /\ version' = r.version
    /\ shownStatusByHash' = r.shown
    /\ emitted' = r.emitted
    /\ calls' = r.calls
    /\ ops' = r.ops
    /\ toastCount' = r.count
    /\ UNCHANGED <<listeners, tokenSymbol, wagmi, prevState, adopted, scenario>>
    /\ UNCHANGED posVars
    /\ UNCHANGED hookVars

CallStartTransaction ==
    \E t \in Tokens, ty \in Types, h \in Hashes \cup {NoHash} :
        Call(startTransaction(Store, t, ty, h))

CallUpdateHash ==
    \E t \in Tokens, ty \in Types, h \in Hashes :
        Call(updateHash(Store, t, ty, h))

CallMarkPendingSeen == \E h \in Hashes : Call(markPendingSeen(Store, h))

CallMarkSuccessSeen == \E h \in Hashes : Call(markSuccessSeen(Store, h))

CallUpdateStatus ==
    \E t \in Tokens, ty \in Types, st \in Statuses, e \in Errors \cup {NoError} :
        Call(updateStatus(Store, t, ty, st, e))

CallMarkToastShown == \E h \in Hashes : Call(markToastShown(Store, h))

CallClearTransaction ==
    \E t \in Tokens, ty \in Types : Call(clearTransaction(Store, t, ty))

CallClearAll == Call(clearAll(Store))

\* subscribe(callback) and the unsubscribe function it returns
Quiet ==
    /\ emitted' = <<>>
    /\ calls' = [l \in Subscribers |-> 0]
    /\ ops' = <<>>
    /\ UNCHANGED <<byTokenType, order, transactions, version, shownStatusByHash,
                   toastCount, tokenSymbol, wagmi, prevState, adopted, scenario>>
    /\ UNCHANGED posVars
    /\ UNCHANGED hookVars

Subscribe ==
    \E l \in Subscribers : listeners' = listeners \cup {l} /\ Quiet

Unsubscribe ==
    \E l \in Subscribers : listeners' = listeners \ {l} /\ Quiet

InitTM ==
    /\ byTokenType = <<>>
    /\ order = <<>>
    /\ transactions = <<>>
    /\ version = 0
    /\ listeners = {}
    /\ shownStatusByHash = [h \in Hashes |-> {}]
    /\ tokenSymbol = "USDC"
    /\ wagmi = InitialWagmiState
    /\ prevState = InitialWagmiState
    /\ emitted = <<>>
    /\ calls = [l \in Subscribers |-> 0]
    /\ ops = <<>>
    /\ toastCount = [h \in Hashes |-> [k \in TerminalKinds |-> 0]]
    /\ adopted = {}
    /\ scenario = "off"
    /\ userTokens = <<"DAI", "USDC">>
    /\ NothingRendered
    /\ HooksUnmounted

NextTM ==
    \/ CallStartTransaction
    \/ CallUpdateHash
    \/ CallMarkPendingSeen
    \/ CallMarkSuccessSeen
    \/ CallUpdateStatus
    \/ CallMarkToastShown
    \/ CallClearTransaction
    \/ CallClearAll
    \/ Subscribe
    \/ Unsubscribe

SpecTM == InitTM /\ [][NextTM]_vars

----------------------------------------------------------------------------
(* The positions table: the balance reader and the deposit context drive the
   renders of useATokenBalances *)

InitPos ==
    /\ byTokenType = <<>>
    /\ order = <<>>
    /\ transactions = <<>>
    /\ version = 0
    /\ listeners = {}
    /\ shownStatusByHash = [h \in Hashes |-> {}]
    /\ tokenSymbol = "USDC"
    /\ wagmi = InitialWagmiState
    /\ prevState = InitialWagmiState
    /\ emitted = <<>>
    /\ calls = [l \in Subscribers |-> 0]
    /\ ops = <<>>
    /\ toastCount = [h \in Hashes |-> [k \in TerminalKinds |-> 0]]
    /\ adopted = {}
    /\ scenario = "off"
    /\ userTokens \in UserTokenOrders
    /\ NothingRendered
    /\ HooksUnmounted

NextPos ==
    \/ DataArrives
    \/ StartApproving
    \/ StartDepositing
    \/ StartWithdrawing
    \/ CompleteTransaction
    \/ Rerender

SpecPos == InitPos /\ [][NextPos]_vars

----------------------------------------------------------------------------
(* The deposit dialog with the toast-owning useDepositMethod: the wallet hooks
   report tuples, the token prop changes, the component renders again or is
   mounted afresh.  The module-level registries outlive every instance. *)

FirstOwnerNext(reg) ==
    [h \in Hashes |-> IF firstOwner[h] # NoOwner THEN firstOwner[h]
                      ELSE IF h \in DOMAIN reg THEN reg[h] ELSE NoOwner]

\* one render of useDepositMethod followed by the effects of useTransactionToast
RenderDeposit(token, w, fresh) ==
    LET m == useDepositMethod(IF fresh THEN InitialDmRefs(token) ELSE dmRefs,
                              hashToTokenRegistry, token, w)
        out == useTransactionToast(IF fresh THEN InitialToastRefs ELSE toastRefs,
                                   globalSuccessHashRegistry, m.args, m.toastId,
                                   toastCount)
    IN /\ tokenSymbol' = token
       /\ wagmi' = w
       /\ dmRefs' = m.refs
       /\ hashToTokenRegistry' = m.registry
       /\ passed' = m.args
       /\ firstOwner' = FirstOwnerNext(m.registry)
       /\ toastRefs' = out.refs
       /\ globalSuccessHashRegistry' = out.registry
       /\ emitted' = out.emitted
       /\ toastCount' = out.count
       /\ UNCHANGED <<byTokenType, order, transactions, version, listeners,
                      shownStatusByHash, prevState, calls, ops, adopted, scenario>>
       /\ UNCHANGED posVars
       /\ UNCHANGED formVars
       /\ UNCHANGED syncVars
       /\ UNCHANGED monVars

\* the selected wallet hook reports a new tuple
ObserveTuple == \E w \in WagmiState : w # wagmi /\ RenderDeposit(tokenSymbol, w, FALSE)

\* the token prop of the mounted dialog changes; the tuple is not reset
SelectToken == \E t \in Tokens : t # tokenSymbol /\ RenderDeposit(t, wagmi, FALSE)

\* a parent renders: same props, same tuple; the messages object is new, so
\* the second effect runs again
RenderAgain == RenderDeposit(tokenSymbol, wagmi, FALSE)

\* another instance mounts (fresh refs) and reads the un-reset tuple
MountAnother == \E t \in Tokens : RenderDeposit(t, wagmi, TRUE)

InitToast ==
    /\ byTokenType = <<>>
    /\ order = <<>>
    /\ transactions = <<>>
    /\ version = 0
    /\ listeners = {}
    /\ shownStatusByHash = [h \in Hashes |-> {}]
    /\ tokenSymbol \in Tokens
    /\ wagmi = InitialWagmiState
    /\ prevState = InitialWagmiState
    /\ emitted = <<>>
    /\ calls = [l \in Subscribers |-> 0]
    /\ ops = <<>>
    /\ toastCount = [h \in Hashes |-> [k \in TerminalKinds |-> 0]]
    /\ adopted = {}
    /\ scenario = "off"
    /\ userTokens = <<"DAI", "USDC">>
    /\ NothingRendered
    /\ MountedWith(tokenSymbol)
    /\ FormUntouched
    /\ SyncUnmounted
    /\ MonitorMounted

NextToast == ObserveTuple \/ SelectToken \/ RenderAgain \/ MountAnother

SpecToast == InitToast /\ [][NextToast]_vars

----------------------------------------------------------------------------
(* The amount form: typing, balance refetches and token changes *)

InitForm ==
    /\ byTokenType = <<>>
    /\ order = <<>>
    /\ transactions = <<>>
    /\ version = 0
    /\ listeners = {}
    /\ shownStatusByHash = [h \in Hashes |-> {}]
    /\ tokenSymbol = "USDC"
    /\ wagmi = InitialWagmiState
    /\ prevState = InitialWagmiState
    /\ emitted = <<>>
    /\ calls = [l \in Subscribers |-> 0]
    /\ ops = <<>>
    /\ toastCount = [h \in Hashes |-> [k \in TerminalKinds |-> 0]]
    /\ adopted = {}
    /\ scenario = "off"
    /\ userTokens = <<"DAI", "USDC">>
    /\ NothingRendered
    /\ ToastsUnmounted
    /\ formAmount = <<>>
    /\ formBalance \in BalanceStrings
    /\ formDecimals \in Decimals
    /\ formValid = FALSE
    /\ SyncUnmounted
    /\ MonitorMounted

NextForm == TypeChar \/ Backspace \/ BalanceChanges \/ TokenChanges

SpecForm == InitForm /\ [][NextForm]_vars

----------------------------------------------------------------------------
(* The deposit context under the two flows that dispatch to it *)

InitSync == InitTM

NextSync ==
    \/ SyncMounts
    \/ SyncPropsChange
    \/ SyncUnmounts
    \/ WithdrawRenders
    \/ WithdrawUnmounts

SpecSync == InitSync /\ [][NextSync]_vars

----------------------------------------------------------------------------
(* The transaction monitor of one mounted wallet hook *)

InitMonitor == InitTM

NextMonitor ==
    \/ HashChanges
    \/ ReceiptSettles
    \/ TimerElapses
    \/ ReceiptFetched

SpecMonitor == InitMonitor /\ [][NextMonitor]_vars

----------------------------------------------------------------------------
(* Vocabulary of the properties *)

DepositKey(t) == makeKey(t, "deposit")
DepositToastId(t) == makeToastKey([type |-> "deposit", tokenSymbol |-> t])
CurrentKey == DepositKey(tokenSymbol)

ToastsOf(log, kind) == {i \in 1..Len(log) : log[i].kind = kind}

\* a step in which the mounted reconciler is handed a new tuple
ObserveStep == wagmi' # wagmi /\ tokenSymbol' = tokenSymbol

\* the manager calls of the last step that found a record and set its status
StatusUpdates(status) ==
    {i \in 1..Len(ops) : /\ ops[i].op = "updateStatus"
                         /\ ops[i].status = status
                         /\ ops[i].before # <<>>}

----------------------------------------------------------------------------
(* C1: a record that took its hash over from another key's record (the tuple
   of asset A read under key B) never gets a success or error toast under its
   own toast id deposit-B for that hash *)
C1_NoToastForForeignHash ==
    \A t \in Tokens :
        DepositKey(t) \in adopted =>
            ~\E i \in 1..Len(emitted) :
                /\ emitted[i].kind \in TerminalKinds
                /\ emitted[i].id = DepositToastId(t)
                /\ emitted[i].hash = byTokenType[DepositKey(t)].hash

(* C2: when the token changes from USDC to DAI while the tuple still holds
   USDC's hash 0xabc and its error, the step (same instance or fresh mount)
   leaves the DAI record as it was, absent included, and emits no error toast
   under deposit-DAI *)
LeftOverFromUSDC ==
    /\ tokenSymbol = "USDC" /\ tokenSymbol' = "DAI"
    /\ wagmi' = wagmi
    /\ wagmi.hash = "0xabc" /\ wagmi.error = "E"
    /\ DepositKey("USDC") \in DOMAIN byTokenType
    /\ byTokenType[DepositKey("USDC")].hash = "0xabc"

C2_StaleErrorIgnored ==
    [][LeftOverFromUSDC =>
        /\ (DepositKey("DAI") \in DOMAIN byTokenType')
              = (DepositKey("DAI") \in DOMAIN byTokenType)
        /\ (DepositKey("DAI") \in DOMAIN byTokenType =>
              byTokenType'[DepositKey("DAI")] = byTokenType[DepositKey("DAI")])
        /\ ~\E i \in ToastsOf(emitted', "error") :
              emitted'[i].id = DepositToastId("DAI")]_vars

(* C3: at most one success toast and at most one error toast per hash, over
   the whole run *)
C3_OneTerminalToastPerHash ==
    \A h \in Hashes : \A k \in TerminalKinds : toastCount[h][k] <= 1

(* C4: with both listeners subscribed, a step in which the reconciler sees
   success newly true for the hash of its key's pending record invokes each
   listener exactly once and makes exactly one toast.success call *)
SuccessTransition ==
    /\ ObserveStep
    /\ listeners = Subscribers
    /\ wagmi'.isSuccess /\ ~prevState.isSuccess
    /\ wagmi'.hash # NoHash /\ wagmi'.hash = prevState.hash
    /\ wagmi'.error = prevState.error
    /\ CurrentKey \in DOMAIN byTokenType
    /\ byTokenType[CurrentKey].hash = wagmi'.hash
    /\ byTokenType[CurrentKey].status = "pending"

C4_OneNotificationPerListener ==
    [][SuccessTransition =>
        /\ \A l \in Subscribers : calls'[l] = 1
        /\ Cardinality(ToastsOf(emitted', "success")) = 1]_vars

(* C4 as amended: each listener is invoked once per manager call that changes
   the store, both equally often: twice when markSuccessSeen sets the latch
   (markSuccessSeen and updateStatus each notify), once when the latch is
   already set or the hash is not indexed.  toast.success is called at most
   once for the hash, and exactly once, under the record's own toast id, when
   the record is the one indexed under the hash, its latch was not yet set
   and no success toast is recorded as shown for the hash *)
LatchNewlySet ==
    /\ wagmi'.hash \in DOMAIN transactions
    /\ ~byTokenType[transactions[wagmi'.hash]].hasSeenSuccess

FirstSuccessOfIndexedRecord ==
    /\ wagmi'.hash \in DOMAIN transactions
    /\ transactions[wagmi'.hash] = CurrentKey
    /\ ~byTokenType[CurrentKey].hasSeenSuccess
    /\ "success" \notin shownStatusByHash[wagmi'.hash]

C4_TwoNotificationsOneToast ==
    [][SuccessTransition =>
        /\ \A l \in Subscribers : calls'[l] = IF LatchNewlySet THEN 2 ELSE 1
        /\ version' = version + calls'["L1"]
        /\ Cardinality({i \in ToastsOf(emitted', "success") :
                           emitted'[i].hash = wagmi'.hash}) <= 1
        /\ FirstSuccessOfIndexedRecord =>
              /\ Cardinality(ToastsOf(emitted', "success")) = 1
              /\ \A i \in ToastsOf(emitted', "success") :
                    /\ emitted'[i].id = DepositToastId(tokenSymbol)
                    /\ emitted'[i].hash = wagmi'.hash]_vars

C4_Witness ==
    /\ Len(ops) = 2
    /\ ops[1].op = "markSuccessSeen" /\ ops[1].before # <<>>
    /\ ~ops[1].before[1].hasSeenSuccess
    /\ ops[2].op = "updateStatus" /\ ops[2].status = "success"
    /\ ops[2].before # <<>> /\ ops[2].before[1].hash = wagmi.hash
    /\ listeners = Subscribers
    /\ \A l \in Subscribers : calls[l] = 2
    /\ Cardinality(ToastsOf(emitted, "success")) = 1
    /\ \E i \in ToastsOf(emitted, "success") :
          emitted[i].id = DepositToastId(tokenSymbol)

(* C5: from a fresh store, key USDC:deposit observing {none, pending}, then
   {0xabc, pending}, then {0xabc, success} has a pending record without hash,
   then the same record with 0xabc attached by updateHash, then status
   success, with exactly one success toast over the sequence, under id
   deposit-USDC *)
C5_DepositScenario ==
    LET key == DepositKey("USDC")
        attached == [hash |-> "0xabc", tokenSymbol |-> "USDC", type |-> "deposit",
                     status |-> "pending", error |-> NoError,
                     hasSeenPending |-> TRUE, hasSeenSuccess |-> FALSE,
                     hasShownToast |-> FALSE]
    IN /\ scenario = "intent" =>
            /\ key \in DOMAIN byTokenType
            /\ byTokenType[key].status = "pending"
            /\ byTokenType[key].hash = NoHash
            /\ toastCount["0xabc"]["success"] = 0
       /\ scenario = "submitted" =>
            /\ key \in DOMAIN byTokenType
            /\ byTokenType[key] = attached
            /\ Len(ops) = 1
            /\ ops[1].op = "updateHash" /\ ops[1].key = key
            /\ ops[1].hash = "0xabc"
            /\ ops[1].before = <<[attached EXCEPT !.hash = NoHash,
                                                  !.hasSeenPending = FALSE]>>
            /\ "0xabc" \in DOMAIN transactions /\ transactions["0xabc"] = key
            /\ toastCount["0xabc"]["success"] = 0
       /\ scenario = "confirmed" =>
            /\ key \in DOMAIN byTokenType
            /\ byTokenType[key] = [attached EXCEPT !.status = "success",
                                                   !.hasSeenSuccess = TRUE]
            /\ toastCount["0xabc"]["success"] = 1
            /\ toastCount["0xdef"]["success"] = 0
            /\ \A i \in ToastsOf(emitted, "success") :
                  emitted[i].id = "deposit-USDC" /\ emitted[i].hash = "0xabc"
            /\ Cardinality(ToastsOf(emitted, "success")) = 1

C5_Witness ==
    /\ scenario = "confirmed"
    /\ byTokenType[DepositKey("USDC")].status = "success"
    /\ emitted = <<[kind |-> "success", id |-> "deposit-USDC", hash |-> "0xabc"]>>

(* C6: no two keys carry the same hash, every record with a hash is the one
   getByHash returns for it, and every hash-index entry points to a stored
   record carrying that hash *)
C6_HashIndexOneToOne ==
    /\ \A k1, k2 \in DOMAIN byTokenType :
          (k1 # k2 /\ byTokenType[k1].hash # NoHash)
              => byTokenType[k1].hash # byTokenType[k2].hash
    /\ \A k \in DOMAIN byTokenType :
          byTokenType[k].hash # NoHash =>
              /\ byTokenType[k].hash \in DOMAIN transactions
              /\ transactions[byTokenType[k].hash] = k
    /\ \A h \in DOMAIN transactions :
          /\ transactions[h] \in DOMAIN byTokenType
          /\ byTokenType[transactions[h]].hash = h

(* C7: the reconciler sets its key's record to success only when the observed
   hash is the hash stored on that record; a record with another hash, or
   none, keeps its status *)
C7_SuccessOnlyForOwnHash ==
    \A i \in StatusUpdates("success") :
        /\ ops[i].key = CurrentKey
        /\ ops[i].before[1].hash = wagmi.hash

(* C8: an error in a tuple whose hash is not the hash of the key's record
   changes neither status nor error of that record and gives no error toast
   under the key's toast id *)
C8_ForeignErrorDropped ==
    /\ \A i \in StatusUpdates("error") : ops[i].before[1].hash = wagmi.hash
    /\ \A i \in ToastsOf(emitted, "error") :
          emitted[i].id = DepositToastId(tokenSymbol) => emitted[i].hash = wagmi.hash

(* C9: a record that carries a hash and has status success or error keeps that
   status for as long as it carries the hash *)
C9_TerminalStatusIsFinal ==
    [][\A k \in (DOMAIN byTokenType) \cap (DOMAIN byTokenType') :
          (/\ byTokenType[k].hash # NoHash
           /\ byTokenType'[k].hash = byTokenType[k].hash
           /\ byTokenType[k].status \in TerminalKinds)
              => byTokenType'[k].status = byTokenType[k].status]_vars

(* C10: when the reconciler of key K is handed a tuple without hash directly
   after a tuple with hash h, and K's record carries h, then afterwards
   getTransaction(K) and getByHash(h) are both null, whatever the flags *)
HashDisappears ==
    /\ ObserveStep
    /\ prevState.hash # NoHash /\ wagmi'.hash = NoHash
    /\ CurrentKey \in DOMAIN byTokenType
    /\ byTokenType[CurrentKey].hash = prevState.hash

C10_ClearedWhateverTheFlags ==
    [][HashDisappears =>
        /\ CurrentKey \notin DOMAIN byTokenType'
        /\ prevState.hash \notin DOMAIN transactions']_vars

(* C10 as amended: getByHash(h) is null afterwards; getTransaction(K) is null
   unless the new tuple newly reports pending, and then K's record is a fresh
   pending record without hash *)
C10_ClearedUnlessIntent ==
    [][HashDisappears =>
        /\ prevState.hash \notin DOMAIN transactions'
        /\ IF wagmi'.isPending /\ ~prevState.isPending
           THEN /\ CurrentKey \in DOMAIN byTokenType'
                /\ byTokenType'[CurrentKey]
                      = NewTransaction(tokenSymbol, "deposit", NoHash)
           ELSE CurrentKey \notin DOMAIN byTokenType']_vars

C10_Witness ==
    /\ Len(ops) = 1
    /\ ops[1].op = "clearTransaction" /\ ops[1].key = CurrentKey
    /\ ops[1].before # <<>> /\ ops[1].before[1].hash # NoHash
    /\ wagmi.hash = NoHash
    /\ CurrentKey \notin DOMAIN byTokenType
    /\ ops[1].before[1].hash \notin DOMAIN transactions

(* C11: after the reconciler of key K is handed a tuple whose hash is not null
   and differs from the hash of the tuple before (a fresh instance has seen
   none), K's record exists and carries the observed hash: attached in place
   by updateHash when the record had no hash, otherwise as a fresh record
   made by startTransaction, and the old hash is no longer indexed *)
\* a step that newly shows a hash: a new tuple on the mounted instance, or a
\* fresh instance reading the tuple and acting on it (a token change on the
\* mounted instance compares the tuple with itself and calls nothing)
NewHashStep ==
    /\ wagmi'.hash # NoHash
    /\ IF wagmi' # wagmi THEN wagmi'.hash # prevState.hash ELSE ops' # <<>>

NoOutcomeYet == ~wagmi'.isSuccess /\ wagmi'.error = NoError

C11_AttachedOrFresh ==
    [][NewHashStep =>
        LET key == DepositKey(tokenSymbol')
            h == wagmi'.hash
        IN /\ key \in DOMAIN byTokenType'
           /\ byTokenType'[key].hash = h
           /\ IF key \in DOMAIN byTokenType /\ byTokenType[key].hash = NoHash
              THEN /\ ops'[1].op = "updateHash"
                   /\ NoOutcomeYet =>
                         byTokenType'[key] = [byTokenType[key] EXCEPT
                                                !.hash = h, !.hasSeenPending = TRUE]
              ELSE /\ ops' # <<>> /\ ops'[1].op = "startTransaction"
                   /\ NoOutcomeYet =>
                         byTokenType'[key] = NewTransaction(tokenSymbol', "deposit", h)
                   /\ key \in DOMAIN byTokenType =>
                         byTokenType[key].hash \notin DOMAIN transactions']_vars

(* C11 as amended: a record of K that already carries the observed hash is
   left as it is by the hash handling (no manager call for the hash); a record
   without hash gets the hash in place and is the one getByHash returns; in
   every other case a fresh record replaces the old one, is the one getByHash
   returns, and the old hash is no longer indexed.  Status, error and the
   success latch change only when the tuple reports success or an error *)
C11_AttachedFreshOrKept ==
    [][NewHashStep =>
        LET key == DepositKey(tokenSymbol')
            h == wagmi'.hash
            had == key \in DOMAIN byTokenType
        IN /\ key \in DOMAIN byTokenType'
           /\ byTokenType'[key].hash = h
           /\ byTokenType'[key].hasSeenPending
           /\ CASE had /\ byTokenType[key].hash = h ->
                     /\ \A i \in 1..Len(ops') :
                           ops'[i].op \notin {"startTransaction", "updateHash"}
                     /\ NoOutcomeYet => byTokenType'[key] = byTokenType[key]
                [] had /\ byTokenType[key].hash = NoHash ->
                     /\ ops'[1].op = "updateHash" /\ ops'[1].hash = h
                     /\ h \in DOMAIN transactions' /\ transactions'[h] = key
                     /\ NoOutcomeYet =>
                           byTokenType'[key] = [byTokenType[key] EXCEPT
                                                  !.hash = h, !.hasSeenPending = TRUE]
                [] OTHER ->
                     /\ ops'[1].op = "startTransaction" /\ ops'[1].hash = h
                     /\ h \in DOMAIN transactions' /\ transactions'[h] = key
                     /\ NoOutcomeYet =>
                           byTokenType'[key] = NewTransaction(tokenSymbol', "deposit", h)
                     /\ had => byTokenType[key].hash \notin DOMAIN transactions']_vars

C11_Witness ==
    /\ ops # <<>> /\ ops[1].op = "startTransaction" /\ ops[1].key = CurrentKey
    /\ ops[1].hash = wagmi.hash /\ wagmi.hash # NoHash
    /\ ops[1].before # <<>>
    /\ ops[1].before[1].hash \notin {NoHash, wagmi.hash}
    /\ ops[1].before[1].hasSeenSuccess
    /\ byTokenType[CurrentKey] = NewTransaction(tokenSymbol, "deposit", wagmi.hash)
    /\ ops[1].before[1].hash \notin DOMAIN transactions

(* Vocabulary of the properties of the manager called directly: the call made
   in the last step, and what a call that changed nothing leaves behind *)
CalledNext(op) == ops' # <<>> /\ ops'[1].op = op

StoreUntouched ==
    /\ UNCHANGED <<byTokenType, order, transactions, version, shownStatusByHash,
                   toastCount>>
    /\ emitted' = <<>>
    /\ \A l \in Subscribers : calls'[l] = 0

EachListenerOnce ==
    /\ version' = version + 1
    /\ \A l \in Subscribers : calls'[l] = IF l \in listeners THEN 1 ELSE 0

(* C12: startTransaction(token, type, hash) leaves exactly one record for the
   key, a new one: status pending, hasSeenSuccess false, hasSeenPending true
   iff the hash is not null; the previous record of the key is gone and its
   old hash no longer resolves to it; the other keys are untouched *)
C12_StartReplaces ==
    [][CalledNext("startTransaction") =>
        LET key == ops'[1].key
            h == ops'[1].hash
            had == key \in DOMAIN byTokenType
        IN /\ key \in DOMAIN byTokenType'
           /\ Cardinality({i \in 1..Len(order') : order'[i] = key}) = 1
           /\ byTokenType'[key].status = "pending"
           /\ byTokenType'[key].hash = h
           /\ byTokenType'[key].hasSeenSuccess = FALSE
           /\ byTokenType'[key].hasSeenPending = (h # NoHash)
           /\ byTokenType'[key].error = NoError
           /\ byTokenType'[key].hasShownToast = FALSE
           /\ makeKey(byTokenType'[key].tokenSymbol, byTokenType'[key].type) = key
           /\ h # NoHash => h \in DOMAIN transactions' /\ transactions'[h] = key
           /\ (had /\ byTokenType[key].hash # h) =>
                 byTokenType[key].hash \notin DOMAIN transactions'
           /\ \A k \in ((DOMAIN byTokenType) \cup (DOMAIN byTokenType')) \ {key} :
                 /\ k \in DOMAIN byTokenType /\ k \in DOMAIN byTokenType'
                 /\ byTokenType'[k] = byTokenType[k]
           /\ EachListenerOnce]_vars

C12_Witness ==
    /\ Len(ops) = 1 /\ ops[1].op = "startTransaction"
    /\ ops[1].before # <<>>
    /\ ops[1].before[1].status \in TerminalKinds
    /\ ops[1].before[1].hash \notin {NoHash, ops[1].hash}
    /\ ops[1].before[1].hash \notin DOMAIN transactions
    /\ ops[1].hash = NoHash
    /\ byTokenType[ops[1].key].status = "pending"
    /\ ~byTokenType[ops[1].key].hasSeenPending
    /\ listeners # {}

(* C13: updateHash and updateStatus for a key without record change nothing:
   no record is created, the hash index and the other records stay, the
   version counter stays and no listener is invoked *)
C13_MissingKeyIsNoOp ==
    [][((CalledNext("updateHash") \/ CalledNext("updateStatus"))
            /\ ops'[1].before = <<>>)
        => (StoreUntouched /\ ops'[1].key \notin DOMAIN byTokenType')]_vars

C13_Witness ==
    /\ Len(ops) = 1 /\ ops[1].op = "updateHash" /\ ops[1].before = <<>>
    /\ ops[1].key \notin DOMAIN byTokenType
    /\ ops[1].hash \notin DOMAIN transactions
    /\ byTokenType # <<>> /\ transactions # <<>>
    /\ listeners = Subscribers
    /\ \A l \in Subscribers : calls[l] = 0

(* C14: markPendingSeen(h) and markSuccessSeen(h) set a latch once: on a hash
   whose record has the latch already, or on a hash that is not indexed, the
   call changes no record, leaves the version counter and invokes no
   listener; otherwise it sets just that latch on the indexed record and
   notifies once *)
LatchCall(op, isSet(_), withLatch(_)) ==
    CalledNext(op) =>
        IF ops'[1].before = <<>> \/ isSet(ops'[1].before[1])
        THEN StoreUntouched
        ELSE /\ byTokenType' = [byTokenType EXCEPT
                                  ![transactions[ops'[1].hash]] = withLatch(@)]
             /\ UNCHANGED <<order, transactions>>
             /\ EachListenerOnce

C14_LatchesIdempotent ==
    [][/\ LatchCall("markPendingSeen", LAMBDA tx : tx.hasSeenPending,
                    LAMBDA tx : [tx EXCEPT !.hasSeenPending = TRUE])
       /\ LatchCall("markSuccessSeen", LAMBDA tx : tx.hasSeenSuccess,
                    LAMBDA tx : [tx EXCEPT !.hasSeenSuccess = TRUE])]_vars

C14_Witness ==
    /\ Len(ops) = 1 /\ ops[1].op = "markSuccessSeen"
    /\ ops[1].before # <<>> /\ ops[1].before[1].hasSeenSuccess
    /\ getByHash(Store, ops[1].hash) = ops[1].before[1]
    /\ listeners = Subscribers
    /\ \A l \in Subscribers : calls[l] = 0

(* C15: a manager call that changes a record or the hash index adds one to
   the version counter and invokes every subscribed listener exactly once;
   the version counter never decreases; a callback that is not subscribed
   (never was, or its unsubscribe function was called) is not invoked *)
C15_EveryChangeNotifies ==
    [][/\ (byTokenType' # byTokenType \/ transactions' # transactions)
             => EachListenerOnce
       /\ version' >= version
       /\ \A l \in Subscribers \ listeners : calls'[l] = 0]_vars

C15_Witness ==
    /\ listeners = {"L1"}
    /\ calls = [l \in Subscribers |-> IF l = "L1" THEN 1 ELSE 0]
    /\ Len(ops) = 1 /\ ops[1].op = "updateStatus" /\ ops[1].before # <<>>
    /\ ops[1].before[1].status # ops[1].status
    /\ version = MaxCalls

(* Vocabulary of the properties of the positions list *)
confirmedBalance(X) == rawBalance(data, findIndex(userTokens, X))
RowsOf(list, X) == {i \in 1..Len(list) : list[i].symbol = X}
OptimisticRowsOf(list, X) == {i \in RowsOf(list, X) : list[i].isOptimistic}
DepositInFlightFor(X) == isDepositing(depositState) /\ depositState.tokenSymbol = <<X>>

(* C16: in every positions list computed from data in which asset X has a
   non-zero confirmed balance, a row for X is the confirmed row: not flagged
   optimistic, raw equal to the confirmed balance *)
C16_ConfirmedWins ==
    \A X \in Tokens :
        confirmedBalance(X) > 0 =>
            \A i \in RowsOf(positions, X) :
                /\ ~positions[i].isOptimistic
                /\ positions[i].raw = confirmedBalance(X)

(* C17: once the balance reader has reported a non-zero balance of X during
   the deposit in flight and the optimistic row for X is gone, no later list
   of that deposit contains an optimistic row for X again, whatever the
   reader reports *)
SameDepositGoesOn ==
    \/ depositState' = depositState
    \/ /\ depositState.phase = "approving" /\ depositState'.phase = "depositing"
       /\ depositState'.tokenSymbol = depositState.tokenSymbol
       /\ depositState'.amount = depositState.amount

C17_NeverReappears ==
    [][\A X \in Tokens :
          (/\ DepositInFlightFor(X)
           /\ depositHistory.seen
           /\ SameDepositGoesOn
           /\ OptimisticRowsOf(positions, X) = {})
              => OptimisticRowsOf(positions', X) = {}]_vars

(* C18: after the deposit of X went back to idle without the balance reader
   having reported a non-zero balance of X, no positions list contains an
   optimistic row for X *)
C18_NoRowOutlivesDeposit ==
    depositHistory.ended # Null =>
        OptimisticRowsOf(positions, depositHistory.ended[1]) = {}

(* C19: while a deposit of X with a parseable amount is in flight and the
   confirmed balance of X is zero, the list has exactly one row for X, flagged
   optimistic and carrying the entered amount; no asset is in two rows of a
   list.  Both versions of the hook *)
OneOptimisticRow(list) ==
    /\ \A X \in Tokens :
          (/\ DepositInFlightFor(X)
           /\ Parses(depositState.amount[1])
           /\ confirmedBalance(X) = 0)
              => /\ Cardinality(RowsOf(list, X)) = 1
                 /\ \A i \in RowsOf(list, X) :
                       /\ list[i].isOptimistic
                       /\ list[i].raw = parseUnits(depositState.amount[1], decimals[X])
    /\ \A X \in Tokens : Cardinality(RowsOf(list, X)) <= 1

C19_OneOptimisticRow == OneOptimisticRow(positions) /\ OneOptimisticRow(positionsSorted)

C19_Witness ==
    /\ depositState.phase = "depositing"
    /\ Len(positions) = 2 /\ Len(positionsSorted) = 2
    /\ \E i, j \in 1..2 :
          /\ positions[i].isOptimistic /\ ~positions[3 - i].isOptimistic
          /\ positionsSorted[j] = positions[i]
          /\ DepositInFlightFor(positions[i].symbol)
          /\ positions[i].raw = Pow10(decimals[positions[i].symbol])
          /\ confirmedBalance(positions[i].symbol) = 0

(* C20: the positions list, optimistic row included, is in alphabetical order
   of the asset symbols *)
C20_Alphabetical ==
    \A i, j \in 1..Len(positions) :
        i < j => ~localeCompareBefore(positions[j].symbol, positions[i].symbol)

(* Vocabulary of the properties of the toast layer *)
HadTerminalToast(h) == \E k \in TerminalKinds : toastCount[h][k] > 0

(* C21: once a success or error toast has been emitted for a hash, no later
   step emits a pending (loading) toast for that hash *)
C21_NoPendingAfterTerminal ==
    [][\A i \in 1..Len(emitted') :
          emitted'[i].kind = "pending" =>
              /\ ~HadTerminalToast(emitted'[i].hash)
              /\ \A j \in 1..(i - 1) :
                    ~(/\ emitted'[j].hash = emitted'[i].hash
                      /\ emitted'[j].kind \in TerminalKinds)]_vars

(* C22: a hash stays registered to the token first recorded for it, and while
   the tuple holds a hash whose first owner is not the selected token, the
   toast layer is handed nothing: no hash, no pending, success or error flag *)
C22_OwnershipIsFinal ==
    /\ \A h \in Hashes :
          firstOwner[h] # NoOwner =>
              /\ h \in DOMAIN hashToTokenRegistry
              /\ hashToTokenRegistry[h] = firstOwner[h]
    /\ (wagmi.hash # NoHash /\ firstOwner[wagmi.hash] # tokenSymbol)
          => passed = NothingPassed

(* C24: a hash gets at most one success toast and at most one error toast over
   the whole run; checked on the case the claim singles out, the steps that
   leave the wallet tuple unchanged (the token is switched, the component
   renders again, another instance mounts): such a step emits no success or
   error toast for a hash that already had one of that kind *)
C24_OneTerminalToastPerHash ==
    [][wagmi' = wagmi =>
          \A i \in 1..Len(emitted') :
              emitted'[i].kind \in TerminalKinds =>
                  toastCount[emitted'[i].hash][emitted'[i].kind] = 0]_vars

(* Vocabulary of the properties of the amount form: what a string denotes,
   computed arithmetically and not by the steps of parseUnits *)
IsNegative(v) == v # <<>> /\ v[1] = "-"
Unsigned(v) == IF IsNegative(v) THEN Tail(v) ELSE v
DecimalNumber(v) ==
    LET u == Unsigned(v)
    IN /\ \E i \in 1..Len(u) : u[i] \in Digits
       /\ \A i \in 1..Len(u) : u[i] \in Digits \cup {"."}
       /\ \A i, j \in 1..Len(u) : (u[i] = "." /\ u[j] = ".") => i = j

\* the i-th digit after the dot, 0 beyond the end of the string
FractionDigit(v, i) ==
    LET u == Unsigned(v)
        dot == IF DotsOf(u) = {} THEN Len(u) + 1 ELSE CHOOSE k \in DotsOf(u) : TRUE
    IN IF dot + i <= Len(u) THEN DigitValue(u[dot + i]) ELSE 0

WholePart(v) ==
    LET u == Unsigned(v)
        dot == IF DotsOf(u) = {} THEN Len(u) + 1 ELSE CHOOSE k \in DotsOf(u) : TRUE
    IN BigIntOf(SubSeq(u, 1, dot - 1))

\* the magnitude in tenths of the smallest unit, digits beyond dropped
RECURSIVE TenthsOfUnit(_, _)
TenthsOfUnit(v, places) ==
    IF places = 0 THEN WholePart(v)
    ELSE TenthsOfUnit(v, places - 1) * 10 + FractionDigit(v, places)

\* the number in the token's smallest units, to the nearest unit
UnitsOf(v, dec) ==
    LET nearest == (TenthsOfUnit(v, dec + 1) + 5) \div 10
    IN IF IsNegative(v) THEN 0 - nearest ELSE nearest

BalanceOrZero == IF formBalance = <<>> THEN <<"0">> ELSE formBalance

(* C23: isValidAmount is true exactly when the amount is a decimal number that
   is, in the token's smallest units, greater than zero and at most the
   balance; so empty, non-numeric and negative input are invalid, the balance
   itself is valid and one smallest unit above the balance is invalid *)
C23_ValidExactlyWhenInRange ==
    /\ formValid = (/\ DecimalNumber(formAmount)
                    /\ UnitsOf(formAmount, formDecimals) > 0
                    /\ UnitsOf(formAmount, formDecimals)
                          <= UnitsOf(BalanceOrZero, formDecimals))
    /\ (formAmount = <<>> \/ ~DecimalNumber(formAmount) \/ IsNegative(formAmount))
          => ~formValid
    /\ (formAmount = formBalance /\ UnitsOf(BalanceOrZero, formDecimals) > 0)
          => formValid
    /\ (/\ DecimalNumber(formAmount)
        /\ UnitsOf(formAmount, formDecimals)
              = UnitsOf(BalanceOrZero, formDecimals) + 1)
          => ~formValid

C23_Witness ==
    /\ formAmount = <<"1", ".", "5">>
    /\ formBalance = formAmount
    /\ formValid

(* C25: in every state the reducer reaches from the initial state: idle,
   no token and no type go together; approving and depositing are deposits
   with an amount; withdrawing is a withdraw without amount; isDepositing and
   isWithdrawing exclude each other and isDepositing has a token *)
C25_ReducerStatesAreConsistent ==
    LET st == depositState
    IN /\ (st.phase = "idle") = (st.tokenSymbol = Null)
       /\ (st.tokenSymbol = Null) = (st.type = Null)
       /\ st.phase \in {"approving", "depositing"}
             => st.type = <<"deposit">> /\ st.amount # Null
       /\ st.phase = "withdrawing"
             => st.type = <<"withdraw">> /\ st.amount = Null
       /\ ~(isDepositing(st) /\ isWithdrawing(st))
       /\ isDepositing(st) => st.tokenSymbol # Null

C25_Witness ==
    /\ isWithdrawing(depositState)
    /\ lastOptimisticPosition # Null
    /\ depositState.tokenSymbol = <<lastOptimisticPosition[1].symbol>>

(* Vocabulary of the properties of the deposit context *)
DepositPending == syncProps.mounted /\ isPendingOf(syncProps)

(* C26: the context is in approving or depositing only while the deposit it
   tracks is pending in a mounted sync hook: once isApproving and isDepositing
   are both false, or the component has unmounted, the context is not left in
   approving or depositing *)
C26_NeverStuckInDeposit ==
    isDepositing(depositState) => DepositPending

(* C28: while the deposit is pending the context reports isDepositing with
   that deposit's token and amount, whatever the withdraw flow's effect does *)
C28_DepositKeptWhilePending ==
    DepositPending =>
        /\ isDepositing(depositState)
        /\ depositState.tokenSymbol = <<syncProps.tokenSymbol>>
        /\ depositState.amount = <<syncProps.amount>>

(* Vocabulary of the isolation property: what getByHash returns from a given
   pair of maps, and the record-changing calls addressed to one key *)
ResultByHash(records, index, hash) ==
    IF hash \in DOMAIN index THEN <<records[index[hash]]>> ELSE <<>>

KeyedCall ==
    \/ CalledNext("startTransaction")
    \/ CalledNext("updateHash")
    \/ CalledNext("updateStatus")
    \/ CalledNext("clearTransaction")

(* C27: startTransaction, updateHash, updateStatus and clearTransaction on one
   token:type key leave every other key's record as it was, and leave the
   result of getByHash as it was for every hash that another key's record
   carries *)
C27_OtherKeysIsolated ==
    [][KeyedCall =>
        LET key == ops'[1].key
            others == (DOMAIN byTokenType) \ {key}
        IN /\ (DOMAIN byTokenType') \ {key} = others
           /\ \A k \in others : byTokenType'[k] = byTokenType[k]
           /\ \A k \in others :
                 byTokenType[k].hash # NoHash =>
                     ResultByHash(byTokenType', transactions', byTokenType[k].hash)
                         = ResultByHash(byTokenType, transactions, byTokenType[k].hash)
    ]_vars

(* useTransactionManager: the state a component is given for its key *)
deriveTransactionState(s, key) ==
    IF ~HasTx(s, key)
    THEN [hash |-> NoHash, isPending |-> FALSE, isSuccess |-> FALSE,
          isError |-> FALSE, error |-> NoError]
    ELSE LET transaction == s.byTokenType[key]
         IN [hash |-> transaction.hash,
             isPending |-> transaction.status = "pending",
             isSuccess |-> transaction.status = "success",
             isError |-> transaction.status = "error",
             error |-> transaction.error]

useTransactionManager(token, type) == deriveTransactionState(Store, makeKey(token, type))

\* the tuple of a call in flight: the intent without a hash, or the submitted
\* call with its hash
InFlight(w) == w.isPending /\ ~w.isSuccess /\ w.error = NoError

(* C29: when the hook mounted for key K is handed a new tuple that reports K's
   call in flight, the managed state for K is pending after the reconciliation:
   K has a record and its status is pending *)
C29_InFlightIsPending ==
    [][(wagmi' # wagmi /\ tokenSymbol' = tokenSymbol /\ InFlight(wagmi'))
        => useTransactionManager(tokenSymbol, "deposit")'.isPending]_vars

(* C30: the monitor's result for a hash depends on that hash alone: a manual
   outcome recorded for an earlier hash is not reported as txError for the
   hash monitored now and does not force its isConfirming to false; the
   fallback check fires at most once per hash, and no check is under way for
   a hash that is not confirming *)
C30_ResultIsPerHash ==
    /\ (/\ monitor.hash # NoHash
        /\ monitorHistory.manualFor \notin {NoHash, monitor.hash})
       => /\ useTransactionMonitor(monitor).txError = receiptErrorOf(monitor)
          /\ useTransactionMonitor(monitor).isConfirming = isConfirmingOf(monitor)
    /\ \A h \in MonitoredHashes : monitorHistory.fired[h] <= 1
    /\ monitor.timer # "none" => isConfirmingOf(monitor)

====
